---- MODULE Spec2Model ----
(***************************************************************************)
(* The request path of the LLM router: middleware stack, credential check, *)
(* request validation, the Adapter (dispatcher) with the route selector    *)
(* and the dynamic adapter loader, the provider adapters and the chat and  *)
(* embeddings endpoints, streaming included.                               *)
(***************************************************************************)
EXTENDS Integers, Sequences, FiniteSets, TLC

\* ------------------------------------------------------------------ bounds
\* Longest message list of a chat request.
MaxMsgs == 2
\* Most items one upstream stream produces before it ends.
MaxChunks == 2

\* ------------------------------------------------ configuration (read-only)
max_input_chars == 16000
max_model_tokens == 4096
max_content_length == 1048576

None == "None"
Tasks == {1, 2}

\* ------------------------------------------------------------ request inputs
\* A message is a dict with a role and, normally, a content; the content is
\* represented by its length in characters.
ContentLens == {4, 8000, 8001}
Roles == {"user"}
Msgs == [role : Roles, content : ContentLens] \cup [role : Roles]
MsgLists == UNION {[1..n -> Msgs] : n \in 0..MaxMsgs}
\* An optional field is a sequence of length 0 (absent) or 1.
MaxTokensVals == {<<>>, <<0>>, <<4096>>, <<4097>>, <<999999>>}
\* A model identifier "<provider>:<model-name>" is the sequence of its
\* colon-separated segments; <<>> is no `model` field in the body.
ModelFields == {<<>>, <<"llama3">>, <<"unknown-provider", "x">>}
ChatBodies == [messages : MsgLists, max_tokens : MaxTokensVals,
               stream : BOOLEAN, model : ModelFields]
InputLists == {<<>>, <<"s1">>, <<"s1", "s2">>}
EmbedBodies == [input : InputLists]
\* Authorization header (a bearer token) and X-API-Key header.
Credentials == {[authorization |-> "absent", x_api_key |-> "absent"],
                [authorization |-> "invalid", x_api_key |-> "absent"],
                [authorization |-> "valid", x_api_key |-> "absent"],
                [authorization |-> "absent", x_api_key |-> "badkey"],
                [authorization |-> "absent", x_api_key |-> "testkey"]}
\* Size of the body in bytes (JSON may be padded, so it is independent of the
\* contents' lengths but never smaller), declared in Content-Length or not.
Sizes == {[body_bytes |-> 32768, has_content_length |-> TRUE],
          [body_bytes |-> 1048576, has_content_length |-> TRUE],
          [body_bytes |-> 1048577, has_content_length |-> TRUE],
          [body_bytes |-> 32768, has_content_length |-> FALSE],
          [body_bytes |-> 1048577, has_content_length |-> FALSE]}
ChatRequests == [endpoint : {"chat"}, cred : Credentials, body : ChatBodies,
                 size : Sizes]
\* What an upstream stream produces: a chunk (an OpenAI chunk with choices, an
\* Ollama line) with its content, or an item the adapter skips (a chunk with no
\* choices, an empty line).
ChunkData == {"a", "b"}
UpItems == [kind : {"data"}, d : ChunkData] \cup {[kind |-> "blank"]}
\* How an upstream call ends.
UpstreamFailures == {"connect timeout", "401 invalid api key"}
UpstreamOutcomes == {"ok"} \cup UpstreamFailures
EmbedRequests == [endpoint : {"embeddings"}, cred : Credentials, body : EmbedBodies,
                  size : Sizes]
NoReq == [endpoint |-> None]

\* ------------------------------------------------------------------- state
VARIABLES
    pc,        \* pc[t]: where task t stands in handling its request
    req,       \* req[t]: the request task t handles
    authed,    \* authed[t]: verify_jwt returned for the request
    routed,    \* routed[t]: the answers of the route selector for the request
    adapter,   \* adapter[t]: the Adapter the dependency built, or NoAdapter
    calls,     \* calls[t]: the upstream calls made for the request, in order
    stream,    \* stream[t]: the upstream stream of a streaming chat
    raised,    \* raised[t]: the exceptions that left the Adapter's methods
    client,    \* the process-wide client of the OpenAI adapter module
    resp       \* resp[t]: the response as the client has received it so far

vars == <<pc, req, authed, routed, adapter, calls, stream, raised, client, resp>>

\* client = AsyncOpenAI(api_key=os.getenv("OPENAI_API_KEY")), made at import.
AsyncOpenAI == [api_key |-> "OPENAI_API_KEY", base_url |-> "default"]

NoAdapter == [request_type |-> None]
NoStream == [open |-> FALSE, exhausted |-> FALSE, failed |-> FALSE, exc |-> None,
             taken |-> <<>>, yielded |-> <<>>, held |-> <<>>]
NoDetail == [text |-> None]
NoBody == [object |-> None]
NoResp == [status |-> 0, detail |-> NoDetail, body |-> NoBody, events |-> <<>>,
           end |-> "pending"]

\* ------------------------------------------------------- request validation
RECURSIVE SumContent(_)
\* sum(len(m.get("content", "")) for m in model.messages)
SumContent(messages) ==
    IF messages = <<>> THEN 0
    ELSE (IF "content" \in DOMAIN Head(messages) THEN Head(messages).content ELSE 0)
         + SumContent(Tail(messages))

\* The ChatRequest model built from a body: its four fields with their
\* defaults; a `model` key of the body is no field and is dropped.
ChatRequest(body) ==
    [messages |-> body.messages,
     temperature |-> IF "temperature" \in DOMAIN body THEN body.temperature ELSE "0.7",
     max_tokens |-> IF body.max_tokens = <<>> THEN 1024 ELSE body.max_tokens[1],
     stream |-> body.stream]

\* check_payload_limits without its character limit.
check_payload_limits_tokens_only(model) ==
    IF model.max_tokens # 0 /\ model.max_tokens > max_model_tokens
    THEN [ok |-> FALSE,
          reason |-> [text |-> "Requested max_tokens exceeds limit",
                      value |-> model.max_tokens, limit |-> max_model_tokens]]
    ELSE [ok |-> TRUE, reason |-> NoDetail]

\* check_payload_limits comparing max_tokens with >= instead of >.
check_payload_limits_at_ceiling(model) ==
    LET total_chars == SumContent(model.messages) IN
    IF total_chars > max_input_chars
    THEN [ok |-> FALSE,
          reason |-> [text |-> "Total message content too large (chars); max is",
                      value |-> total_chars, limit |-> max_input_chars]]
    ELSE IF model.max_tokens # 0 /\ model.max_tokens >= max_model_tokens
    THEN [ok |-> FALSE,
          reason |-> [text |-> "Requested max_tokens exceeds limit",
                      value |-> model.max_tokens, limit |-> max_model_tokens]]
    ELSE [ok |-> TRUE, reason |-> NoDetail]

\* check_payload_limits not counting the characters of a conversation that
\* opens with a system message.
check_payload_limits_by_role(model) ==
    LET total_chars == IF model.messages # <<>> /\ Head(model.messages).role = "system"
                       THEN 0 ELSE SumContent(model.messages) IN
    IF total_chars > max_input_chars
    THEN [ok |-> FALSE,
          reason |-> [text |-> "Total message content too large (chars); max is",
                      value |-> total_chars, limit |-> max_input_chars]]
    ELSE IF model.max_tokens # 0 /\ model.max_tokens > max_model_tokens
    THEN [ok |-> FALSE,
          reason |-> [text |-> "Requested max_tokens exceeds limit",
                      value |-> model.max_tokens, limit |-> max_model_tokens]]
    ELSE [ok |-> TRUE, reason |-> NoDetail]

\* The after-validator: the character limit first, then the token limit.
check_payload_limits(model) ==
    LET total_chars == SumContent(model.messages) IN
    IF total_chars > max_input_chars
    THEN [ok |-> FALSE,
          reason |-> [text |-> "Total message content too large (chars); max is",
                      value |-> total_chars, limit |-> max_input_chars]]
    ELSE IF model.max_tokens # 0 /\ model.max_tokens > max_model_tokens
    THEN [ok |-> FALSE,
          reason |-> [text |-> "Requested max_tokens exceeds limit",
                      value |-> model.max_tokens, limit |-> max_model_tokens]]
    ELSE [ok |-> TRUE, reason |-> NoDetail]

\* ------------------------------------------------------------ route selector
\* Settings.default_chat_model and Settings.default_embed_model.
default_chat_model == <<"openai", "gpt-3.5-turbo-0125">>
default_embed_model == <<"openai", "text-embedding-3-small">>

\* select_adapter_and_model with another fallback than the chat default.
select_adapter_and_model_other_fallback(request_type, payload) ==
    IF request_type = "chat" THEN <<"openai", <<"openai", "gpt-3.5-turbo-0125">>>>
    ELSE IF request_type = "stream_chat" THEN <<"openai", <<"openai", "gpt-3.5-turbo-0125">>>>
    ELSE IF request_type = "embed" THEN <<"openai", <<"openai", "text-embedding-3-small">>>>
    ELSE <<"ollama", <<"ollama", "llama3">>>>

\* select_adapter_and_model sending the chats that ask for more than the
\* default number of tokens to another provider.
select_adapter_and_model_by_payload(request_type, payload) ==
    IF request_type = "chat"
    THEN IF payload.max_tokens > 1024 THEN <<"ollama", <<"ollama", "llama3">>>>
         ELSE <<"openai", <<"openai", "gpt-3.5-turbo-0125">>>>
    ELSE IF request_type = "stream_chat" THEN <<"openai", <<"openai", "gpt-3.5-turbo-0125">>>>
    ELSE IF request_type = "embed" THEN <<"openai", <<"openai", "text-embedding-3-small">>>>
    ELSE <<"openai", <<"openai", "gpt-3.5-turbo-0125">>>>

select_adapter_and_model(request_type, payload) ==
    IF request_type = "chat" THEN <<"openai", <<"openai", "gpt-3.5-turbo-0125">>>>
    ELSE IF request_type = "stream_chat" THEN <<"openai", <<"openai", "gpt-3.5-turbo-0125">>>>
    ELSE IF request_type = "embed" THEN <<"openai", <<"openai", "text-embedding-3-small">>>>
    ELSE <<"openai", <<"openai", "gpt-3.5-turbo-0125">>>>

\* ---------------------------------------------------------- provider adapters
\* The modules app.adapters.<provider>_adapter that exist.
AdapterModules == {"openai", "ollama", "deepseek"}

Last(s) == s[Len(s)]

\* model_name.split(":", 1)[1] if ":" in model_name else model_name
OpenAIAdapter(model_name) ==
    [provider |-> "openai",
     model_name |-> IF Len(model_name) > 1 THEN Tail(model_name) ELSE model_name]

OllamaAdapter(model_name) ==
    [provider |-> "ollama", model_name |-> model_name]

\* model_name.split(":")[-1]
DeepSeekAdapter(model_name) ==
    [provider |-> "deepseek", model_name |-> <<Last(model_name)>>]

\* <module>.get_adapter(model_id)
get_adapter(provider, model_id) ==
    IF provider = "openai" THEN OpenAIAdapter(model_id)
    ELSE IF provider = "ollama" THEN OllamaAdapter(model_id)
    ELSE DeepSeekAdapter(model_id)

\* ------------------------------------------------------- Adapter (dispatcher)
\* Adapter.__init__ once the route selector has answered `route`: the import
\* of the provider's module and the construction of its adapter. An unknown
\* module makes import_module raise ModuleNotFoundError.
AdapterBind(request_type, payload, route) ==
    IF route[1] \in AdapterModules
    THEN [ok |-> TRUE, exc |-> None,
          obj |-> [request_type |-> request_type, payload |-> payload,
                   inner |-> get_adapter(route[1], route[2])]]
    ELSE [ok |-> FALSE, exc |-> "ModuleNotFoundError", obj |-> NoAdapter]

\* ------------------------------------------------------------------- steps
Init ==
    /\ pc = [t \in Tasks |-> "idle"]
    /\ req = [t \in Tasks |-> NoReq]
    /\ authed = [t \in Tasks |-> FALSE]
    /\ routed = [t \in Tasks |-> <<>>]
    /\ adapter = [t \in Tasks |-> NoAdapter]
    /\ calls = [t \in Tasks |-> <<>>]
    /\ stream = [t \in Tasks |-> NoStream]
    /\ raised = [t \in Tasks |-> <<>>]
    /\ client = AsyncOpenAI
    /\ resp = [t \in Tasks |-> NoResp]

\* A JSON error response {"detail": ...}, complete.
ErrorResponse(status, detail) ==
    [status |-> status, detail |-> detail, body |-> NoBody, events |-> <<>>,
     end |-> "complete"]

\* An exception no handler is registered for: the server answers 500.
ServerError == ErrorResponse(500, [text |-> "Internal Server Error"])

\* handle_adapter_error: the status code and the detail of the AdapterError.
\* handle_adapter_error answering every adapter error as a server error.
handle_adapter_error_500(exc) == ErrorResponse(500, [text |-> exc.detail])

handle_adapter_error(exc) ==
    ErrorResponse(exc.status_code, [text |-> exc.detail])

AdapterError(detail, status_code) ==
    [type |-> "AdapterError", detail |-> detail, status_code |-> status_code]

\* The SSE body of event_gen: one event per chunk, then the sentinel.
DoneBody == [literal |-> "[DONE]"]
event_gen_chunk(chunk) == [data |-> chunk]
\* event_gen without its last line.
event_gen_end_missing == <<>>

event_gen_end == <<[data |-> DoneBody]>>

EndsWithDone(events) ==
    events # <<>> /\ Last(events) = [data |-> DoneBody]

\* A request of the set `requests` reaches the server and a task takes it.
ArriveFrom(t, requests) ==
    /\ pc[t] = "idle"
    /\ \E r \in requests : req' = [req EXCEPT ![t] = r]
    /\ pc' = [pc EXCEPT ![t] = "body_limit"]
    /\ UNCHANGED <<authed, routed, adapter, calls, stream, resp, raised, client>>

Arrive(t) == ArriveFrom(t, ChatRequests \cup EmbedRequests)

\* A response that ends the handling of the request.
Finish(t, response) ==
    /\ resp' = [resp EXCEPT ![t] = response]
    /\ pc' = [pc EXCEPT ![t] = "done"]

\* BodySizeLimitMiddleware.dispatch: only a declared Content-Length is compared.
BodySizeLimit(t) ==
    /\ pc[t] = "body_limit"
    /\ IF req[t].size.has_content_length /\ req[t].size.body_bytes > max_content_length
       THEN Finish(t, ErrorResponse(413, [text |-> "Request body too large"]))
       ELSE pc' = [pc EXCEPT ![t] = "verify_jwt"] /\ UNCHANGED resp
    /\ UNCHANGED <<req, authed, routed, adapter, calls, stream, raised, client>>

\* verify_jwt decoding the token without checking it.
verify_jwt_unverified(cred) ==
    IF cred.authorization = "absent"
    THEN [ok |-> FALSE, status |-> 403, detail |-> [text |-> "Not authenticated"]]
    ELSE [ok |-> TRUE, status |-> 0, detail |-> NoDetail]

\* The first dependency of both endpoints: HTTPBearer, then verify_jwt. Only
\* the Authorization header is read.
verify_jwt(cred) ==
    IF cred.authorization = "absent"
    THEN [ok |-> FALSE, status |-> 403, detail |-> [text |-> "Not authenticated"]]
    ELSE IF cred.authorization = "invalid"
    THEN [ok |-> FALSE, status |-> 403, detail |-> [text |-> "Invalid or expired token"]]
    ELSE [ok |-> TRUE, status |-> 0, detail |-> NoDetail]

VerifyJwt(t) ==
    /\ pc[t] = "verify_jwt"
    /\ LET v == verify_jwt(req[t].cred) IN
       IF v.ok
       THEN /\ authed' = [authed EXCEPT ![t] = TRUE]
            /\ pc' = [pc EXCEPT ![t] = "get_adapter"]
            /\ UNCHANGED resp
       ELSE /\ Finish(t, ErrorResponse(v.status, v.detail))
            /\ UNCHANGED authed
    /\ UNCHANGED <<req, routed, adapter, calls, stream, raised, client>>

\* The construction of the Adapter inside a dependency: bound, or the
\* exception of the import, which no handler catches.
Construct(t, bound) ==
    IF bound.ok
    THEN /\ adapter' = [adapter EXCEPT ![t] = bound.obj]
         /\ pc' = [pc EXCEPT ![t] = "endpoint"]
         /\ UNCHANGED resp
    ELSE /\ Finish(t, ServerError)
         /\ UNCHANGED adapter

\* get_chat_adapter giving every chat request the kind "chat".
ChatKind_chat(t) == "chat"

\* The second dependency of /v1/chat/completions: the body is validated as a
\* ChatRequest (422 on failure), then get_chat_adapter builds the Adapter of
\* kind "stream_chat" or "chat" from req.dict().
ChatKind(t) == IF ChatRequest(req[t].body).stream THEN "stream_chat" ELSE "chat"

ChatDependency(t, route) ==
    /\ pc[t] = "get_adapter"
    /\ req[t].endpoint = "chat"
    /\ LET verdict == check_payload_limits(ChatRequest(req[t].body)) IN
       IF verdict.ok
       THEN /\ routed' = [routed EXCEPT ![t] = Append(@, route)]
            /\ Construct(t, AdapterBind(ChatKind(t), ChatRequest(req[t].body), route))
       ELSE /\ Finish(t, ErrorResponse(422, verdict.reason))
            /\ UNCHANGED <<routed, adapter>>
    /\ UNCHANGED <<req, authed, calls, stream, raised, client>>

GetChatAdapter(t) ==
    ChatDependency(t, select_adapter_and_model(ChatKind(t), ChatRequest(req[t].body)))

\* The second dependency of /v1/embeddings: get_embedding_adapter builds the
\* Adapter of kind "embed".
EmbeddingDependency(t, route) ==
    /\ pc[t] = "get_adapter"
    /\ req[t].endpoint = "embeddings"
    /\ routed' = [routed EXCEPT ![t] = Append(@, route)]
    /\ Construct(t, AdapterBind("embed", [input |-> req[t].body.input], route))
    /\ UNCHANGED <<req, authed, calls, stream, raised, client>>

GetEmbeddingAdapter(t) ==
    EmbeddingDependency(t, select_adapter_and_model("embed", [input |-> req[t].body.input]))

\* ---------------------------------------------------- provider adapters' calls
\* The exception the upstream client raises for a failure of the upstream:
\* the SDK's for OpenAI, httpx's for the others. It carries the failure's text.
UpstreamError(inner, failure) ==
    IF inner.provider = "openai" THEN [type |-> "OpenAIError", text |-> failure]
    ELSE [type |-> "httpx.HTTPError", text |-> failure]

\* chat putting the upstream's own error text into the AdapterError.
inner_chat_leaky(inner, outcome) ==
    IF outcome = "ok"
    THEN [raised |-> FALSE, exc |-> [type |-> None],
          value |-> [object |-> "chat.completion", model |-> inner.model_name,
                     choices |-> <<[role |-> "assistant", content |-> "reply"]>>]]
    ELSE [raised |-> TRUE, exc |-> AdapterError(outcome, 502), value |-> NoBody]

\* What the call of the inner adapter's chat gives for an upstream outcome: a
\* value, or an exception. Only the OpenAI adapter turns the upstream's
\* exception into an AdapterError.
inner_chat(inner, outcome) ==
    IF outcome = "ok"
    THEN [raised |-> FALSE, exc |-> [type |-> None],
          value |-> IF inner.provider = "deepseek"
                    THEN [object |-> "str", content |-> "reply"]
                    ELSE [object |-> "chat.completion", model |-> inner.model_name,
                          choices |-> <<[role |-> "assistant", content |-> "reply"]>>]]
    ELSE [raised |-> TRUE,
          exc |-> IF inner.provider = "openai"
                  THEN AdapterError("Upstream OpenAI chat failed", 502)
                  ELSE UpstreamError(inner, outcome),
          value |-> NoBody]

\* The vector of one text.
Embedding(text) == <<"embedding", text>>

\* The data of the upstream's answer to an embedding call that succeeds: one
\* item per input, in the order of the inputs.
UpstreamEmbeddings(inputs) ==
    [i \in 1..Len(inputs) |-> [index |-> i - 1, embedding |-> Embedding(inputs[i])]]

\* OpenAIAdapter.embed dropping the last item of the upstream's data.
OpenAIEmbedResult_truncated(inner, data) ==
    [object |-> "list",
     data |-> [i \in 1..(IF Len(data) > 1 THEN Len(data) - 1 ELSE Len(data)) |-> data[i]],
     model |-> inner.model_name]

\* OpenAIAdapter.embed's result: [e.model_dump() for e in response.data].
OpenAIEmbedResult(inner, data) ==
    [object |-> "list",
     data |-> [i \in 1..Len(data) |-> data[i]],
     model |-> inner.model_name]

\* OllamaAdapter.embed's result: the upstream's JSON as it is.
OllamaEmbedResult(inner, data) ==
    [model |-> inner.model_name,
     embeddings |-> [i \in 1..Len(data) |-> data[i].embedding]]

\* What the call of the inner adapter's embed gives. DeepSeekAdapter.embed
\* returns data["data"][0]["embedding"], whatever the number of inputs.
inner_embed(inner, inputs, outcome) ==
    IF outcome = "ok"
    THEN LET data == UpstreamEmbeddings(inputs) IN
         IF inner.provider = "openai"
         THEN [raised |-> FALSE, exc |-> [type |-> None],
               value |-> OpenAIEmbedResult(inner, data)]
         ELSE IF inner.provider = "ollama"
         THEN [raised |-> FALSE, exc |-> [type |-> None],
               value |-> OllamaEmbedResult(inner, data)]
         ELSE IF data = <<>>
         THEN [raised |-> TRUE, exc |-> [type |-> "IndexError"], value |-> NoBody]
         ELSE [raised |-> FALSE, exc |-> [type |-> None],
               value |-> [object |-> "vector", embedding |-> data[1].embedding]]
    ELSE [raised |-> TRUE,
          exc |-> IF inner.provider = "openai"
                  THEN AdapterError("Upstream OpenAI embedding failed", 502)
                  ELSE UpstreamError(inner, outcome),
          value |-> NoBody]

\* The exception of chat_stream when the upstream stream cannot be opened.
inner_stream_open_exc(inner, failure) ==
    IF inner.provider = "openai"
    THEN AdapterError("Upstream OpenAI streaming failed", 502)
    ELSE UpstreamError(inner, failure)

\* The exception that leaves chat_stream when the iteration of the open
\* upstream stream fails: the upstream client's own, in both adapters.
inner_stream_iter_exc(inner, failure) == UpstreamError(inner, failure)

\* One exception that left a method of the Adapter, with the upstream failure
\* behind it (None when the upstream did not fail).
Raise(op, outcome, exc) ==
    [op |-> op, cause |-> IF outcome = "ok" THEN None ELSE outcome, exc |-> exc]

\* chat_stream keeping the first chunk's choices for every chunk it yields.
inner_stream_item_stale(inner, item) ==
    IF item.kind = "data"
    THEN <<[id |-> "uuid4", object |-> "chat.completion.chunk",
            model |-> inner.model_name, choices |-> <<"a">>]>>
    ELSE <<>>

\* What the inner adapter's chat_stream yields for one item of the upstream
\* stream: the JSON of one chunk, or nothing for an item it skips.
inner_stream_item(inner, item) ==
    IF item.kind = "data"
    THEN <<[id |-> "uuid4", object |-> "chat.completion.chunk",
            model |-> inner.model_name, choices |-> <<item.d>>]>>
    ELSE <<>>

\* Adapter.chat_stream: every chunk of the inner adapter is yielded as it is.
Adapter_chat_stream(chunk) == chunk

\* ------------------------------------------------------------------ endpoints
\* The response of an endpoint that raised: an AdapterError goes through
\* handle_adapter_error, any other exception is a server error.
ExceptionResponse(exc) ==
    IF exc.type = "AdapterError" THEN handle_adapter_error(exc) ELSE ServerError

\* The call taking the model name and the payload from the Adapter that the
\* first task built, as if they were kept on the shared client.
UpstreamCall_shared(t, op) ==
    LET owner == IF adapter[1] # NoAdapter THEN 1 ELSE t IN
    [op |-> op, provider |-> adapter[t].inner.provider,
     model |-> adapter[owner].inner.model_name, payload |-> adapter[owner].payload]

UpstreamCall(t, op) ==
    [op |-> op, provider |-> adapter[t].inner.provider,
     model |-> adapter[t].inner.model_name, payload |-> adapter[t].payload]

\* @limiter.limit(...) wraps both endpoint functions: when the dependencies
\* are solved and the endpoint is called, the limiter lets the call through
\* or raises RateLimitExceeded, answered 429.
RateLimit(t) ==
    /\ pc[t] = "endpoint"
    /\ \E allowed \in BOOLEAN :
          IF allowed
          THEN pc' = [pc EXCEPT ![t] = "handler"] /\ UNCHANGED resp
          ELSE Finish(t, ErrorResponse(429, [text |-> "Rate limit exceeded"]))
    /\ UNCHANGED <<req, authed, routed, adapter, calls, stream, raised, client>>

\* Adapter.chat selecting and loading the inner adapter again at each call.
ChatCall_rebind(t) ==
    /\ pc[t] = "handler"
    /\ req[t].endpoint = "chat"
    /\ ~adapter[t].payload.stream
    /\ adapter' = [adapter EXCEPT ![t].inner = get_adapter("ollama", <<"ollama", "llama3">>)]
    /\ calls' = [calls EXCEPT ![t] = Append(@, UpstreamCall(t, "chat"))]
    /\ pc' = [pc EXCEPT ![t] = "await_chat"]
    /\ UNCHANGED <<req, authed, routed, stream, resp, raised, client>>

\* chat, not streaming: await adapter.chat(...), the upstream call is made.
ChatCall(t) ==
    /\ pc[t] = "handler"
    /\ req[t].endpoint = "chat"
    /\ ~adapter[t].payload.stream
    /\ calls' = [calls EXCEPT ![t] = Append(@, UpstreamCall(t, "chat"))]
    /\ pc' = [pc EXCEPT ![t] = "await_chat"]
    /\ UNCHANGED <<req, authed, routed, adapter, stream, resp, raised, client>>

\* chat calling the adapter once more after a failure.
ChatReturn_retry(t) ==
    /\ pc[t] = "await_chat"
    /\ \E outcome \in UpstreamOutcomes :
          LET r == inner_chat(adapter[t].inner, outcome) IN
          IF r.raised /\ Len(calls[t]) < 2
          THEN /\ pc' = [pc EXCEPT ![t] = "handler"]
               /\ raised' = [raised EXCEPT ![t] = Append(@, Raise("chat", outcome, r.exc))]
               /\ UNCHANGED resp
          ELSE /\ Finish(t, [status |-> 200, detail |-> NoDetail, body |-> r.value,
                             events |-> <<>>, end |-> "complete"])
               /\ UNCHANGED raised
    /\ UNCHANGED <<req, authed, routed, adapter, calls, stream, client>>

\* The upstream call returns or fails, and chat returns the adapter's result.
ChatReturn(t) ==
    /\ pc[t] = "await_chat"
    /\ \E outcome \in UpstreamOutcomes :
          LET r == inner_chat(adapter[t].inner, outcome) IN
          IF r.raised
          THEN /\ Finish(t, ExceptionResponse(r.exc))
               /\ raised' = [raised EXCEPT ![t] = Append(@, Raise("chat", outcome, r.exc))]
          ELSE /\ Finish(t, [status |-> 200, detail |-> NoDetail, body |-> r.value,
                             events |-> <<>>, end |-> "complete"])
               /\ UNCHANGED raised
    /\ UNCHANGED <<req, authed, routed, adapter, calls, stream, client>>

\* embeddings: await adapter.embed(inputs).
EmbedCall(t) ==
    /\ pc[t] = "handler"
    /\ req[t].endpoint = "embeddings"
    /\ calls' = [calls EXCEPT ![t] = Append(@, UpstreamCall(t, "embed"))]
    /\ pc' = [pc EXCEPT ![t] = "await_embed"]
    /\ UNCHANGED <<req, authed, routed, adapter, stream, resp, raised, client>>

\* embeddings answering a failed call with the vectors of a part of the inputs.
EmbedReturn_partial(t) ==
    /\ pc[t] = "await_embed"
    /\ \E outcome \in UpstreamOutcomes :
          LET r == inner_embed(adapter[t].inner, adapter[t].payload.input, outcome)
              part == OpenAIEmbedResult(adapter[t].inner,
                          UpstreamEmbeddings(IF adapter[t].payload.input = <<>> THEN <<>>
                                             ELSE <<adapter[t].payload.input[1]>>))
          IN
          IF r.raised
          THEN /\ Finish(t, [status |-> 200, detail |-> NoDetail, body |-> part,
                             events |-> <<>>, end |-> "complete"])
               /\ raised' = [raised EXCEPT ![t] = Append(@, Raise("embed", outcome, r.exc))]
          ELSE /\ Finish(t, [status |-> 200, detail |-> NoDetail, body |-> r.value,
                             events |-> <<>>, end |-> "complete"])
               /\ UNCHANGED raised
    /\ UNCHANGED <<req, authed, routed, adapter, calls, stream, client>>

\* Every exception of embed becomes HTTPException(500, "Embedding failed").
EmbedReturn(t) ==
    /\ pc[t] = "await_embed"
    /\ \E outcome \in UpstreamOutcomes :
          LET r == inner_embed(adapter[t].inner, adapter[t].payload.input, outcome) IN
          IF r.raised
          THEN /\ Finish(t, ErrorResponse(500, [text |-> "Embedding failed"]))
               /\ raised' = [raised EXCEPT ![t] = Append(@, Raise("embed", outcome, r.exc))]
          ELSE /\ Finish(t, [status |-> 200, detail |-> NoDetail, body |-> r.value,
                             events |-> <<>>, end |-> "complete"])
               /\ UNCHANGED raised
    /\ UNCHANGED <<req, authed, routed, adapter, calls, stream, client>>

\* ------------------------------------------------------------------ streaming
\* chat with stream set: the StreamingResponse over event_gen() is returned
\* and the response starts (200) before the generator runs.
StreamStart(t) ==
    /\ pc[t] = "handler"
    /\ req[t].endpoint = "chat"
    /\ adapter[t].payload.stream
    /\ resp' = [resp EXCEPT ![t] = [status |-> 200, detail |-> NoDetail,
                                    body |-> NoBody, events |-> <<>>, end |-> "open"]]
    /\ pc' = [pc EXCEPT ![t] = "stream_open"]
    /\ UNCHANGED <<req, authed, routed, adapter, calls, stream, raised, client>>

\* event_gen catching the exception and finishing the body with the sentinel.
AbortWithSentinel(t, exc, upstream_failed) ==
    /\ stream' = [stream EXCEPT ![t].open = FALSE, ![t].failed = upstream_failed,
                                ![t].exc = exc.type]
    /\ resp' = [resp EXCEPT ![t].events = @ \o <<[data |-> DoneBody]>>,
                            ![t].end = "complete"]
    /\ pc' = [pc EXCEPT ![t] = "done"]

\* An exception leaves event_gen after the response started: the body is cut
\* where it stands.
Abort(t, exc, upstream_failed) ==
    /\ stream' = [stream EXCEPT ![t].open = FALSE, ![t].failed = upstream_failed,
                                ![t].exc = exc.type]
    /\ resp' = [resp EXCEPT ![t].end = "aborted"]
    /\ pc' = [pc EXCEPT ![t] = "done"]

\* The first pull of the body: event_gen enters Adapter.chat_stream, which
\* enters the inner adapter's chat_stream, which opens the upstream stream.
\* The DeepSeek adapter has no chat_stream.
StreamOpen(t) ==
    /\ pc[t] = "stream_open"
    /\ IF adapter[t].inner.provider = "deepseek"
       THEN /\ Abort(t, [type |-> "AttributeError"], FALSE)
            /\ raised' = [raised EXCEPT ![t] =
                    Append(@, Raise("chat_stream", "ok", [type |-> "AttributeError"]))]
            /\ UNCHANGED calls
       ELSE /\ calls' = [calls EXCEPT ![t] = Append(@, UpstreamCall(t, "chat_stream"))]
            /\ \E outcome \in UpstreamOutcomes :
                  IF outcome = "ok"
                  THEN /\ stream' = [stream EXCEPT ![t].open = TRUE]
                       /\ pc' = [pc EXCEPT ![t] = "stream_iter"]
                       /\ UNCHANGED <<resp, raised>>
                  ELSE LET exc == inner_stream_open_exc(adapter[t].inner, outcome) IN
                       /\ Abort(t, exc, TRUE)
                       /\ raised' = [raised EXCEPT ![t] =
                               Append(@, Raise("chat_stream", outcome, exc))]
    /\ UNCHANGED <<req, authed, routed, adapter, client>>

\* The adapter reading the upstream ahead of the consumer, two chunks at a time.
StreamNext_ahead(t) ==
    /\ pc[t] = "stream_iter"
    /\ \/ \E item \in UpItems :
            /\ Len(stream[t].taken) < MaxChunks
            /\ LET out == inner_stream_item(adapter[t].inner, item) IN
               IF out = <<>>
               THEN /\ stream' = [stream EXCEPT ![t].taken = Append(@, item)]
                    /\ UNCHANGED pc
               ELSE /\ stream' = [stream EXCEPT
                          ![t].taken = Append(@, item),
                          ![t].yielded = Append(@, Adapter_chat_stream(out[1])),
                          ![t].held = Append(@, event_gen_chunk(Adapter_chat_stream(out[1])))]
                    /\ pc' = [pc EXCEPT ![t] = IF Len(stream[t].held) >= 1
                                                THEN "stream_send" ELSE "stream_iter"]
            /\ UNCHANGED <<resp, raised>>
       \/ /\ stream' = [stream EXCEPT ![t].open = FALSE, ![t].exhausted = TRUE,
                                      ![t].held = @ \o event_gen_end]
          /\ pc' = [pc EXCEPT ![t] = "stream_send"]
          /\ UNCHANGED <<resp, raised>>
    /\ UNCHANGED <<req, authed, routed, adapter, calls, client>>

\* The loop over the upstream stream that does not see the stream's end.
StreamNextNoEnd(t) ==
    /\ pc[t] = "stream_iter"
    /\ \E item \in UpItems :
          /\ Len(stream[t].taken) < MaxChunks
          /\ stream' = [stream EXCEPT ![t].taken = Append(@, item)]
          /\ UNCHANGED pc
    /\ UNCHANGED <<req, authed, routed, adapter, calls, resp, raised, client>>

\* The generators wait for the upstream: it produces an item, ends, or fails.
\* A chunk goes up through Adapter.chat_stream to event_gen, which yields its
\* event; at the end of the upstream event_gen yields the sentinel.
StreamNext(t) ==
    /\ pc[t] = "stream_iter"
    /\ \/ \E item \in UpItems :
            /\ Len(stream[t].taken) < MaxChunks
            /\ LET out == inner_stream_item(adapter[t].inner, item) IN
               IF out = <<>>
               THEN /\ stream' = [stream EXCEPT ![t].taken = Append(@, item)]
                    /\ UNCHANGED pc
               ELSE /\ stream' = [stream EXCEPT
                          ![t].taken = Append(@, item),
                          ![t].yielded = Append(@, Adapter_chat_stream(out[1])),
                          ![t].held = <<event_gen_chunk(Adapter_chat_stream(out[1]))>>]
                    /\ pc' = [pc EXCEPT ![t] = "stream_send"]
            /\ UNCHANGED <<resp, raised>>
       \/ /\ stream' = [stream EXCEPT ![t].open = FALSE, ![t].exhausted = TRUE,
                                      ![t].held = event_gen_end]
          /\ pc' = [pc EXCEPT ![t] = "stream_send"]
          /\ UNCHANGED <<resp, raised>>
       \/ \E failure \in UpstreamFailures :
            LET exc == inner_stream_iter_exc(adapter[t].inner, failure) IN
            /\ Abort(t, exc, TRUE)
            /\ raised' = [raised EXCEPT ![t] = Append(@, Raise("chat_stream", failure, exc))]
    /\ UNCHANGED <<req, authed, routed, adapter, calls, client>>

\* The server writes the events event_gen yielded to the client and pulls
\* again; after the sentinel the generator returns and the body is complete.
StreamSend(t) ==
    /\ pc[t] = "stream_send"
    /\ stream' = [stream EXCEPT ![t].held = <<>>]
    /\ resp' = [resp EXCEPT ![t].events = @ \o stream[t].held,
                            ![t].end = IF stream[t].exhausted THEN "complete" ELSE @]
    /\ pc' = [pc EXCEPT ![t] = IF stream[t].exhausted THEN "done" ELSE "stream_iter"]
    /\ UNCHANGED <<req, authed, routed, adapter, calls, raised, client>>

\* ------------------------------------------------------------ specifications
Handle(t) ==
    \/ Arrive(t)
    \/ BodySizeLimit(t)
    \/ VerifyJwt(t)
    \/ GetChatAdapter(t)
    \/ GetEmbeddingAdapter(t)
    \/ RateLimit(t)
    \/ ChatCall(t)
    \/ ChatReturn(t)
    \/ EmbedCall(t)
    \/ EmbedReturn(t)
    \/ StreamStart(t)
    \/ StreamOpen(t)
    \/ StreamNext(t)
    \/ StreamSend(t)

\* One request, of any shape, handled by one task.
Next == Handle(1)

Spec == Init /\ [][Next]_vars

\* The Adapter for every answer the route selector could give: the loader and
\* the three provider modules behind it, for a few authorized requests.
AnyRequests ==
    [endpoint : {"chat"},
     cred : {[authorization |-> "valid", x_api_key |-> "absent"]},
     body : [messages : {<<[role |-> "user", content |-> 4]>>}, max_tokens : {<<>>},
             stream : BOOLEAN, model : {<<>>}],
     size : {[body_bytes |-> 32768, has_content_length |-> TRUE]}]
    \cup
    [endpoint : {"embeddings"},
     cred : {[authorization |-> "valid", x_api_key |-> "absent"]},
     body : [input : {<<>>, <<"s1", "s2">>}],
     size : {[body_bytes |-> 32768, has_content_length |-> TRUE]}]

ProviderIds == AdapterModules \cup {"unknown-provider"}
ModelIds == {<<"gpt-4">>, <<"openai", "gpt-4">>, <<"ollama", "llama3", "8b">>}
Routes == ProviderIds \X ModelIds

ArriveAny(t) == ArriveFrom(t, AnyRequests)

GetChatAdapterAny(t) == \E route \in Routes : ChatDependency(t, route)

GetEmbeddingAdapterAny(t) == \E route \in Routes : EmbeddingDependency(t, route)

NextAny ==
    \/ ArriveAny(1)
    \/ BodySizeLimit(1)
    \/ VerifyJwt(1)
    \/ GetChatAdapterAny(1)
    \/ GetEmbeddingAdapterAny(1)
    \/ RateLimit(1)
    \/ ChatCall(1)
    \/ ChatReturn(1)
    \/ EmbedCall(1)
    \/ EmbedReturn(1)
    \/ StreamStart(1)
    \/ StreamOpen(1)
    \/ StreamNext(1)
    \/ StreamSend(1)

SpecAny == Init /\ [][NextAny]_vars

\* The Adapter constructed for every request kind, the known ones and others.
RequestKinds == {"chat", "stream_chat", "embed", "rerank", None}

AdapterOfKind(t, kind) ==
    /\ pc[t] = "get_adapter"
    /\ LET payload == IF req[t].endpoint = "chat" THEN ChatRequest(req[t].body)
                      ELSE [input |-> req[t].body.input]
           route == select_adapter_and_model(kind, payload)
       IN  /\ routed' = [routed EXCEPT ![t] = Append(@, route)]
           /\ Construct(t, AdapterBind(kind, payload, route))
    /\ UNCHANGED <<req, authed, calls, stream, raised, client>>

NextKinds ==
    \/ ArriveAny(1)
    \/ BodySizeLimit(1)
    \/ VerifyJwt(1)
    \/ \E kind \in RequestKinds : AdapterOfKind(1, kind)
    \/ RateLimit(1)
    \/ ChatCall(1)
    \/ ChatReturn(1)
    \/ EmbedCall(1)
    \/ EmbedReturn(1)
    \/ StreamStart(1)
    \/ StreamOpen(1)
    \/ StreamNext(1)
    \/ StreamSend(1)

SpecKinds == Init /\ [][NextKinds]_vars

\* Two chat requests handled at the same time, each by its own task, in any
\* interleaving, with any of two routes for each.
PairRequests ==
    [endpoint : {"chat"},
     cred : {[authorization |-> "valid", x_api_key |-> "absent"]},
     body : [messages : {<<[role |-> "user", content |-> 4]>>,
                         <<[role |-> "user", content |-> 8000]>>},
             max_tokens : {<<>>}, stream : BOOLEAN, model : {<<>>}],
     size : {[body_bytes |-> 32768, has_content_length |-> TRUE]}]

PairRoutes ==
    {<<"openai", <<"openai", "gpt-4">>>>, <<"ollama", <<"ollama", "llama3", "8b">>>>}

ArrivePair(t) == ArriveFrom(t, PairRequests)

GetChatAdapterPair(t) == \E route \in PairRoutes : ChatDependency(t, route)

HandlePair(t) ==
    \/ ArrivePair(t)
    \/ BodySizeLimit(t)
    \/ VerifyJwt(t)
    \/ GetChatAdapterPair(t)
    \/ RateLimit(t)
    \/ ChatCall(t)
    \/ ChatReturn(t)
    \/ StreamStart(t)
    \/ StreamOpen(t)
    \/ StreamNext(t)
    \/ StreamSend(t)

NextPair == \E t \in Tasks : HandlePair(t)

SpecPair == Init /\ [][NextPair]_vars

\* Two chat requests validated side by side; their messages differ in roles,
\* in order and in length, around the character limit.
VerdictMsgs ==
    [role : {"user", "system"}, content : {8000, 8001}] \cup [role : {"user"}]

VerdictRequests ==
    [endpoint : {"chat"},
     cred : {[authorization |-> "valid", x_api_key |-> "absent"]},
     body : [messages : UNION {[1..n -> VerdictMsgs] : n \in 0..MaxMsgs},
             max_tokens : {<<>>, <<4097>>}, stream : {FALSE}, model : {<<>>}],
     size : {[body_bytes |-> 32768, has_content_length |-> TRUE]}]

ArriveVerdict(t) == ArriveFrom(t, VerdictRequests)

HandleVerdict(t) ==
    \/ ArriveVerdict(t)
    \/ BodySizeLimit(t)
    \/ VerifyJwt(t)
    \/ GetChatAdapter(t)

NextVerdict == \E t \in Tasks : HandleVerdict(t)

SpecVerdict == Init /\ [][NextVerdict]_vars

\* Two requests routed side by side; their payloads differ in messages,
\* temperature, max_tokens, stream, a `model` key, or the embedding inputs.
RouteRequests ==
    [endpoint : {"chat"},
     cred : {[authorization |-> "valid", x_api_key |-> "absent"]},
     body : [messages : {<<[role |-> "user", content |-> 4]>>,
                         <<[role |-> "user", content |-> 8000]>>},
             temperature : {"0.7", "1.5"},
             max_tokens : {<<>>, <<4096>>}, stream : BOOLEAN,
             model : {<<>>, <<"llama3">>, <<"ollama", "llama3">>}],
     size : {[body_bytes |-> 32768, has_content_length |-> TRUE]}]
    \cup
    [endpoint : {"embeddings"},
     cred : {[authorization |-> "valid", x_api_key |-> "absent"]},
     body : [input : {<<"s1">>, <<"s1", "s2">>}],
     size : {[body_bytes |-> 32768, has_content_length |-> TRUE]}]

ArriveRoute(t) == ArriveFrom(t, RouteRequests)

HandleRoute(t) ==
    \/ ArriveRoute(t)
    \/ BodySizeLimit(t)
    \/ VerifyJwt(t)
    \/ GetChatAdapter(t)
    \/ GetEmbeddingAdapter(t)

NextRoute == \E t \in Tasks : HandleRoute(t)

SpecRoute == Init /\ [][NextRoute]_vars

\* The same streaming chat request sent twice, each handled by its own task,
\* the two in any interleaving.
TwiceRequests ==
    [endpoint : {"chat"},
     cred : {[authorization |-> "valid", x_api_key |-> "absent"]},
     body : [messages : {<<[role |-> "user", content |-> 4]>>,
                         <<[role |-> "user", content |-> 8000],
                           [role |-> "user", content |-> 8000]>>},
             max_tokens : {<<>>, <<4096>>}, stream : {TRUE}, model : {<<>>}],
     size : {[body_bytes |-> 32768, has_content_length |-> TRUE]}]

ArriveTwice ==
    /\ \A t \in Tasks : pc[t] = "idle"
    /\ \E r \in TwiceRequests : req' = [t \in Tasks |-> r]
    /\ pc' = [t \in Tasks |-> "body_limit"]
    /\ UNCHANGED <<authed, routed, adapter, calls, stream, resp, raised, client>>

\* The upstream of these requests is finite: its streams open and end, none fails.
StreamOpenOk(t) == StreamOpen(t) /\ ~stream'[t].failed

StreamNextOk(t) == StreamNext(t) /\ ~stream'[t].failed

HandleStream(t) ==
    \/ BodySizeLimit(t)
    \/ VerifyJwt(t)
    \/ GetChatAdapter(t)
    \/ RateLimit(t)
    \/ StreamStart(t)
    \/ StreamOpenOk(t)
    \/ StreamNextOk(t)
    \/ StreamSend(t)

NextTwice == ArriveTwice \/ \E t \in Tasks : HandleStream(t)

\* The event loop runs every task that can run, and an upstream stream that is
\* finite produces its next item, its end or its failure.
SpecTwice ==
    /\ Init
    /\ [][NextTwice]_vars
    /\ \A t \in Tasks : WF_vars(HandleStream(t))

\* ===================================================================== claims
IsChat(t) == req[t].endpoint = "chat"
IsStream(t) == IsChat(t) /\ req[t].body.stream
Answered(t) == pc[t] = "done"
\* The second dependency has run for the request.
Validated(t) == authed[t] /\ pc[t] # "get_adapter"

\* The characters of all contents of a message list, counted by position.
ContentTotal(messages) ==
    LET upto[i \in 0..Len(messages)] ==
            IF i = 0 THEN 0
            ELSE upto[i - 1] + (IF "content" \in DOMAIN messages[i]
                                THEN messages[i].content ELSE 0)
    IN  upto[Len(messages)]

TooLong(t) == IsChat(t) /\ ContentTotal(req[t].body.messages) > max_input_chars
OverTokens(t) ==
    /\ IsChat(t)
    /\ req[t].body.max_tokens # <<>>
    /\ req[t].body.max_tokens[1] > max_model_tokens
AtCeiling(t) == IsChat(t) /\ req[t].body.max_tokens = <<max_model_tokens>>
MentionsMaxTokens(d) ==
    d.text = "Requested max_tokens exceeds limit" /\ d.limit = max_model_tokens
MentionsChars(d) ==
    d.text = "Total message content too large (chars); max is" /\ d.limit = max_input_chars
NotDispatched(t) == routed[t] = <<>> /\ adapter[t] = NoAdapter /\ calls[t] = <<>>

\* C1: a chat request whose message contents total more than max_input_chars
\* fails validation (it is answered 422 once validation has run), and for it
\* no route is selected, no Adapter is constructed and no upstream call made.
C1_TooLongIsRejectedBeforeDispatch ==
    \A t \in Tasks :
        TooLong(t) =>
            /\ NotDispatched(t)
            /\ pc[t] \in {"body_limit", "verify_jwt", "get_adapter", "done"}
            /\ Validated(t) =>
                  /\ Answered(t)
                  /\ resp[t].status = 422
                  /\ MentionsChars(resp[t].detail)

C1_Witness ==
    \E t \in Tasks : TooLong(t) /\ Validated(t) /\ resp[t].status = 422

\* C2 as stated: a chat request whose max_tokens exceeds max_model_tokens is
\* rejected with a 4xx whose reason mentions max_tokens and the ceiling,
\* whatever the messages are; max_tokens equal to the ceiling is not rejected
\* by this check.
C2_Original ==
    \A t \in Tasks :
        /\ (OverTokens(t) /\ Validated(t)) =>
              /\ Answered(t)
              /\ resp[t].status \in 400..499
              /\ MentionsMaxTokens(resp[t].detail)
        /\ (AtCeiling(t) /\ Validated(t)) => ~MentionsMaxTokens(resp[t].detail)

\* C2 as amended: the request is rejected with a 4xx in every case; the reason
\* mentions max_tokens and the ceiling when the contents are within
\* max_input_chars, and is the character limit's reason when they are not.
C2_RejectedOverCeiling ==
    \A t \in Tasks :
        /\ (OverTokens(t) /\ Validated(t)) =>
              /\ Answered(t)
              /\ resp[t].status \in 400..499
              /\ NotDispatched(t)
              /\ IF ContentTotal(req[t].body.messages) <= max_input_chars
                 THEN MentionsMaxTokens(resp[t].detail)
                 ELSE MentionsChars(resp[t].detail)
        /\ (AtCeiling(t) /\ Validated(t)) => ~MentionsMaxTokens(resp[t].detail)

C2_Witness ==
    \E t \in Tasks :
        /\ OverTokens(t) /\ Validated(t)
        /\ req[t].body.max_tokens = <<999999>>
        /\ MentionsMaxTokens(resp[t].detail)

Unauthenticated(t) == req[t].endpoint # None /\ req[t].cred.authorization # "valid"
DeclaredTooLarge(t) ==
    req[t].size.has_content_length /\ req[t].size.body_bytes > max_content_length

\* C3 as stated: an unauthenticated request to either endpoint is answered
\* 403, and the route selector, the Adapter's construction and the upstream
\* call never run before the credential check has passed.
C3_Original ==
    \A t \in Tasks :
        /\ Unauthenticated(t) => (NotDispatched(t) /\ (Answered(t) => resp[t].status = 403))
        /\ ~NotDispatched(t) => authed[t]

\* C3 as amended: an unauthenticated request that the body-size limit passes on
\* is answered 403 (one it stops is answered 413); the rest as stated.
C3_UnauthenticatedNeverDispatched ==
    \A t \in Tasks :
        /\ Unauthenticated(t) =>
              /\ NotDispatched(t)
              /\ ~authed[t]
              /\ Answered(t) => IF DeclaredTooLarge(t) THEN resp[t].status = 413
                                ELSE resp[t].status = 403
        /\ ~NotDispatched(t) => authed[t]

C3_Witness ==
    \E t \in Tasks :
        /\ Unauthenticated(t) /\ req[t].cred.authorization = "invalid"
        /\ req[t].endpoint = "embeddings"
        /\ Answered(t) /\ resp[t].status = 403

\* C4: the chat endpoint takes the API key of the X-API-Key header as the
\* credential: with the configured key the request is authorized (and a 200
\* carries a list `choices`), with a wrong key it is answered 403 with the
\* detail "Invalid or missing API Key".
C4_ApiKeyIsTheCredential ==
    \A t \in Tasks :
        (IsChat(t) /\ ~DeclaredTooLarge(t) /\ pc[t] \notin {"idle", "body_limit", "verify_jwt"}) =>
            /\ req[t].cred.x_api_key = "testkey" =>
                  /\ authed[t]
                  /\ (Answered(t) /\ resp[t].status = 200 /\ ~IsStream(t))
                        => "choices" \in DOMAIN resp[t].body
            /\ req[t].cred.x_api_key = "badkey" =>
                  /\ resp[t].status = 403
                  /\ resp[t].detail.text = "Invalid or missing API Key"

\* C5: for a provider identifier with no adapter module the Adapter's
\* construction fails at once, nothing is bound or called, and the client
\* gets a 4xx response, not a server fault.
C5_UnknownProviderIsClientError ==
    \A t \in Tasks :
        (routed[t] # <<>> /\ routed[t][1][1] \notin AdapterModules) =>
            /\ adapter[t] = NoAdapter
            /\ calls[t] = <<>>
            /\ Answered(t)
            /\ resp[t].status \in 400..499

UnknownModelPrefix(t) ==
    /\ IsChat(t)
    /\ Len(req[t].body.model) > 1
    /\ req[t].body.model[1] \notin AdapterModules

\* C6: a chat request whose `model` carries the prefix of an unknown provider
\* is answered 400 (when authentication, validation and the rate limit let it
\* through) and no upstream call is made for it.
C6_UnknownModelPrefixIs400 ==
    \A t \in Tasks :
        UnknownModelPrefix(t) =>
            /\ calls[t] = <<>>
            /\ (Answered(t) /\ authed[t] /\ resp[t].status \notin {422, 429})
                  => resp[t].status = 400

IsDone(event) == event.data = DoneBody

\* C7: a stream that completes normally is one data event per chunk the
\* adapter produced, in order, followed by the [DONE] event; [DONE] is never
\* anywhere but last and is emitted once.
C7_StreamIsChunksThenDone ==
    \A t \in Tasks :
        /\ (IsStream(t) /\ resp[t].end = "complete" /\ resp[t].status = 200) =>
              resp[t].events = [i \in 1..Len(stream[t].yielded) |->
                                    [data |-> stream[t].yielded[i]]]
                               \o <<[data |-> DoneBody]>>
        /\ \A i \in 1..Len(resp[t].events) :
              IsDone(resp[t].events[i]) =>
                  /\ i = Len(resp[t].events)
                  /\ resp[t].end = "complete"

C7_Witness ==
    \E t \in Tasks :
        /\ resp[t].end = "complete"
        /\ Len(stream[t].yielded) = 2
        /\ Len(resp[t].events) = 3
        /\ IsDone(resp[t].events[3])

\* C8: a stream cut by an upstream failure ends aborted, which is not how a
\* normal stream ends; it never carries [DONE], and nothing is delivered
\* after the failure.
C8_FailedStreamHasNoDone ==
    /\ [](\A t \in Tasks :
            stream[t].failed =>
                /\ resp[t].end = "aborted"
                /\ Answered(t)
                /\ \A i \in 1..Len(resp[t].events) : ~IsDone(resp[t].events[i]))
    /\ [][\A t \in Tasks : stream[t].failed => resp'[t] = resp[t]]_vars

C8_Witness ==
    \E t \in Tasks :
        /\ stream[t].failed
        /\ Len(resp[t].events) >= 1
        /\ resp[t].end = "aborted"

IsData(item) == item.kind = "data"
ChunkEvents(events) == SelectSeq(events, LAMBDA e : ~IsDone(e))

\* C9: the chunks the adapter yields are, one for one and in order, the
\* chunks of the upstream stream, and the chunks delivered to the consumer
\* are those chunks in the same order (all of them, or all but the one in
\* flight).
C9_ChunksInUpstreamOrder ==
    \A t \in Tasks :
        LET produced == SelectSeq(stream[t].taken, IsData)
            yielded == stream[t].yielded
            delivered == ChunkEvents(resp[t].events)
        IN  /\ Len(yielded) = Len(produced)
            /\ \A i \in 1..Len(yielded) :
                  /\ yielded[i].choices = <<produced[i].d>>
                  /\ yielded[i].model = adapter[t].inner.model_name
            /\ Len(delivered) \in {Len(yielded), Len(yielded) - 1}
            /\ \A i \in 1..Len(delivered) : delivered[i] = [data |-> yielded[i]]
            /\ Len(delivered) < Len(yielded) =>
                  stream[t].held = <<[data |-> yielded[Len(yielded)]]>>

C9_Witness ==
    \E t \in Tasks :
        /\ adapter[t] # NoAdapter
        /\ adapter[t].inner.provider = "ollama"
        /\ stream[t].taken = <<[kind |-> "data", d |-> "b"], [kind |-> "data", d |-> "a"]>>
        /\ Len(ChunkEvents(resp[t].events)) = 2

\* C10: each of two invocations of chat_stream with the same input, the
\* upstream of each being finite, opens an upstream stream of its own and
\* comes to its end with [DONE] as its last event.
C10_BothStreamsEndWithDone ==
    \A t \in Tasks :
        [](pc[t] = "stream_open" =>
              <>(/\ Answered(t)
                 /\ resp[t].end = "complete"
                 /\ EndsWithDone(resp[t].events)
                 /\ Len(calls[t]) = 1
                 /\ calls[t][1].op = "chat_stream"))

C10_Witness ==
    /\ req[1] = req[2]
    /\ \A t \in Tasks : Answered(t) /\ EndsWithDone(resp[t].events)
    /\ stream[1].taken # stream[2].taken

IsEmbed(t) == req[t].endpoint = "embeddings"
Succeeded(t) == Answered(t) /\ resp[t].status = 200

\* The vectors of an embedding result, in its order.
Vectors(body) ==
    IF "data" \in DOMAIN body
    THEN [i \in 1..Len(body.data) |-> body.data[i].embedding]
    ELSE IF "embeddings" \in DOMAIN body THEN body.embeddings
    ELSE <<body.embedding>>

\* C11: the result of a successful embedding request with N inputs holds
\* exactly N vectors, the i-th being the embedding of the i-th input.
C11_OneVectorPerInputInOrder ==
    \A t \in Tasks :
        (IsEmbed(t) /\ Succeeded(t)) =>
            LET inputs == req[t].body.input
                vectors == Vectors(resp[t].body)
            IN  /\ Len(vectors) = Len(inputs)
                /\ \A i \in 1..Len(inputs) : vectors[i] = Embedding(inputs[i])

C11_Witness ==
    \E t \in Tasks :
        /\ IsEmbed(t) /\ Succeeded(t)
        /\ req[t].body.input = <<"s1", "s2">>
        /\ Len(Vectors(resp[t].body)) = 2

\* The upstream call of the request failed.
UpstreamFailed(t) == \E i \in 1..Len(raised[t]) : raised[t][i].cause # None

\* C12: when the upstream embedding call fails the caller gets an error
\* response and no vectors at all; one upstream call was made for all the
\* inputs, so there is no list for a part of them.
C12_FailedEmbeddingReturnsNoVectors ==
    \A t \in Tasks :
        (IsEmbed(t) /\ UpstreamFailed(t)) =>
            /\ Answered(t)
            /\ resp[t].status >= 400
            /\ resp[t].body = NoBody
            /\ resp[t].events = <<>>
            /\ Len(calls[t]) = 1
            /\ calls[t][1].payload.input = req[t].body.input

C12_Witness ==
    \E t \in Tasks :
        /\ IsEmbed(t) /\ UpstreamFailed(t)
        /\ adapter[t].inner.provider = "ollama"
        /\ Len(req[t].body.input) = 2
        /\ resp[t].status = 500

\* The adapter errors a call of the request ended with.
AdapterErrors(t) ==
    {raised[t][i].exc : i \in {j \in 1..Len(raised[t]) : raised[t][j].exc.type = "AdapterError"}}

\* C13: a chat that is not streaming and fails with an adapter error is
\* answered with the error's status code and the body {"detail": message};
\* for an upstream failure the code is 502. The handler does so for every
\* status code and message.
C13_ChatAdapterErrorKeepsStatusAndDetail ==
    /\ \A t \in Tasks :
          (IsChat(t) /\ ~IsStream(t)) =>
              /\ \A exc \in AdapterErrors(t) :
                    /\ Answered(t)
                    /\ resp[t].status = exc.status_code
                    /\ resp[t].detail = [text |-> exc.detail]
                    /\ resp[t].body = NoBody
              /\ (UpstreamFailed(t) /\ adapter[t].inner.provider = "openai") =>
                    /\ resp[t].status = 502
                    /\ AdapterErrors(t) # {}
    /\ \A code \in {400, 502, 503}, text \in {"Provider not available", "Upstream OpenAI chat failed"} :
          handle_adapter_error(AdapterError(text, code)) = ErrorResponse(code, [text |-> text])

C13_Witness ==
    \E t \in Tasks :
        /\ IsChat(t) /\ ~IsStream(t) /\ Answered(t)
        /\ AdapterErrors(t) = {AdapterError("Upstream OpenAI chat failed", 502)}
        /\ resp[t].status = 502
        /\ resp[t].detail.text = "Upstream OpenAI chat failed"

\* C14: an embedding request that fails with an adapter error is answered
\* with the error's status code (502 for an upstream failure), as a chat is.
C14_EmbedAdapterErrorKeepsStatus ==
    \A t \in Tasks :
        IsEmbed(t) =>
            \A exc \in AdapterErrors(t) :
                /\ Answered(t)
                /\ resp[t].status = exc.status_code

\* C15: an upstream failure leaves the adapter, in chat, chat_stream and
\* embed alike, as an AdapterError with a status code and a message, never as
\* an exception of the HTTP client or of the SDK.
C15_UpstreamFailureIsAdapterError ==
    \A t \in Tasks :
        \A i \in 1..Len(raised[t]) :
            raised[t][i].cause # None =>
                /\ raised[t][i].exc.type = "AdapterError"
                /\ raised[t][i].exc.status_code \in 400..599

\* The failures of the upstream behind the exceptions of the request.
Causes(t) == {raised[t][i].cause : i \in 1..Len(raised[t])} \ {None}

\* The error response of an endpoint whose upstream call failed.
GenericFailure(t) ==
    IF IsEmbed(t) THEN ErrorResponse(500, [text |-> "Embedding failed"])
    ELSE ErrorResponse(502, [text |-> "Upstream OpenAI chat failed"])

C17_EveryProviderHasEveryCapability ==
    \A t \in Tasks :
        /\ \A i \in 1..Len(raised[t]) :
              raised[t][i].exc.type # "AttributeError"
        /\ (IsChat(t) /\ ~IsStream(t) /\ Succeeded(t)) => "choices" \in DOMAIN resp[t].body
        /\ (IsEmbed(t) /\ Succeeded(t)) =>
              Len(Vectors(resp[t].body)) = Len(req[t].body.input)

\* The kind an Adapter was constructed with, when one was.
Kind(t) == adapter[t].request_type

\* C18: for every request kind the selector gives a (provider, model) pair:
\* the default chat model for chat and stream_chat, the default embedding
\* model for embed, and the chat default for every other kind; the pair
\* depends on nothing but the kind, and the Adapter is constructed for it.
C18_SelectorIsTotalWithChatFallback ==
    \A t \in Tasks :
        /\ Validated(t) => adapter[t] # NoAdapter
        /\ (adapter[t] # NoAdapter) =>
              /\ Len(routed[t]) = 1
              /\ routed[t][1] = select_adapter_and_model(Kind(t), adapter[t].payload)
              /\ routed[t][1][2] = IF Kind(t) = "embed" THEN default_embed_model
                                   ELSE default_chat_model
              /\ routed[t][1][1] = routed[t][1][2][1]

C18_Witness ==
    \E t \in Tasks :
        /\ adapter[t] # NoAdapter
        /\ Kind(t) = "rerank"
        /\ routed[t] = <<<<"openai", default_chat_model>>>>

PastBodyLimit(t) == pc[t] \notin {"idle", "body_limit"}

\* C20: a request whose body is larger than max_content_length is answered
\* 413 and reaches neither authentication nor validation nor dispatch, with
\* or without a Content-Length header; a body of exactly max_content_length
\* bytes is passed on.
C20_OversizedBodyIs413 ==
    \A t \in Tasks :
        PastBodyLimit(t) =>
            IF req[t].size.body_bytes > max_content_length
            THEN /\ Answered(t)
                 /\ resp[t].status = 413
                 /\ ~authed[t]
                 /\ NotDispatched(t)
            ELSE resp[t].status # 413

\* C21: at most one call of the upstream client is made for a request, chat,
\* streaming chat or embedding, and none is made after the upstream failed.
C21_NoRetry ==
    /\ [](\A t \in Tasks : Len(calls[t]) <= 1)
    /\ [][\A t \in Tasks : UpstreamFailed(t) => calls'[t] = calls[t]]_vars
    /\ [][\A t \in Tasks : (calls[t] # <<>>) => calls'[t] = calls[t]]_vars

C21_Witness ==
    \E t \in Tasks :
        /\ UpstreamFailed(t)
        /\ Answered(t)
        /\ Len(calls[t]) = 1
        /\ calls[t][1].op = "chat"

\* C22: the Adapter is bound once, at construction, to the inner adapter of the
\* route selected then; from then on, through every call of chat, chat_stream
\* and embed, its inner adapter, its request kind and its payload stay as
\* they are.
C22_BindingIsImmutable ==
    /\ [](\A t \in Tasks :
            (adapter[t] # NoAdapter) =>
                /\ Len(routed[t]) = 1
                /\ adapter[t].inner = get_adapter(routed[t][1][1], routed[t][1][2]))
    /\ [][\A t \in Tasks : (adapter[t] # NoAdapter) => adapter'[t] = adapter[t]]_vars
    /\ [][\A t \in Tasks : (routed[t] # <<>>) => routed'[t] = routed[t]]_vars

C22_Witness ==
    \E t \in Tasks :
        /\ adapter[t] # NoAdapter
        /\ adapter[t].inner.provider = "ollama"
        /\ Answered(t)
        /\ calls[t] # <<>>

\* The chunks taken from the upstream that the consumer has not received.
Undelivered(t) == Len(stream[t].yielded) - Len(ChunkEvents(resp[t].events))

\* C23: the next item is taken from the upstream only when the consumer asks
\* for the next chunk, that is when everything taken before was delivered or
\* skipped; at most one chunk is ever taken and not yet delivered.
C23_AtMostOneChunkAhead ==
    /\ [](\A t \in Tasks :
            /\ Undelivered(t) \in {0, 1}
            /\ Len(stream[t].held) <= 1
            /\ (Undelivered(t) = 1 /\ ~stream[t].failed) => pc[t] = "stream_send")
    /\ [][\A t \in Tasks :
            Len(stream'[t].taken) > Len(stream[t].taken) =>
                /\ Len(stream'[t].taken) = Len(stream[t].taken) + 1
                /\ stream[t].held = <<>>
                /\ Undelivered(t) = 0]_vars

C23_Witness ==
    \E t \in Tasks :
        /\ Len(stream[t].yielded) = 2
        /\ Undelivered(t) = 1
        /\ adapter[t].inner.provider = "openai"

\* C24: of two requests handled at the same time, each has the Adapter and
\* the inner adapter built for it, every upstream call carries the model name
\* and the messages of its own request, and no request changes the shared
\* client.
C24_ConcurrentRequestsDoNotInterfere ==
    /\ [](\A t \in Tasks :
            /\ (adapter[t] # NoAdapter) =>
                  /\ adapter[t].payload = ChatRequest(req[t].body)
                  /\ adapter[t].inner = get_adapter(routed[t][1][1], routed[t][1][2])
            /\ \A i \in 1..Len(calls[t]) :
                  /\ calls[t][i].model = get_adapter(routed[t][1][1], routed[t][1][2]).model_name
                  /\ calls[t][i].provider = routed[t][1][1]
                  /\ calls[t][i].payload.messages = req[t].body.messages)
    /\ [](client = AsyncOpenAI)
    /\ [][\E t \in Tasks : \A u \in Tasks \ {t} :
                /\ req'[u] = req[u]
                /\ routed'[u] = routed[u]
                /\ adapter'[u] = adapter[u]
                /\ calls'[u] = calls[u]
                /\ stream'[u] = stream[u]
                /\ raised'[u] = raised[u]
                /\ resp'[u] = resp[u]]_vars

C24_Witness ==
    /\ \A t \in Tasks : Len(calls[t]) = 1
    /\ calls[1][1].model # calls[2][1].model
    /\ calls[1][1].payload.messages # calls[2][1].payload.messages
    /\ pc[1] = "await_chat"
    /\ pc[2] = "stream_iter"

\* The identifier without its provider prefix: everything after the first
\* colon, or the whole identifier when it has no colon.
PrefixStripped(model_id) == IF Len(model_id) > 1 THEN Tail(model_id) ELSE model_id

\* C25: the adapter of every provider holds the model identifier with the
\* provider prefix stripped: everything after the first colon, and the
\* identifier unchanged when it has no prefix.
C25_ModelNameIsPrefixStripped ==
    \A t \in Tasks :
        (adapter[t] # NoAdapter) =>
            adapter[t].inner.model_name = PrefixStripped(routed[t][1][2])

\* The validation of the request of t has accepted it: the Adapter was built.
Accepted(t) == Validated(t) /\ adapter[t] # NoAdapter

\* C26: two validated chat requests with the same max_tokens and the same
\* aggregate content length get the same verdict, both accepted or both
\* rejected with 422 for the same reason, whatever the roles and the order of
\* their messages.
C26_VerdictDependsOnSizeOnly ==
    \A t, u \in Tasks :
        ( /\ IsChat(t) /\ IsChat(u)
          /\ Validated(t) /\ Validated(u)
          /\ req[t].body.max_tokens = req[u].body.max_tokens
          /\ ContentTotal(req[t].body.messages) = ContentTotal(req[u].body.messages) )
        => /\ Accepted(t) = Accepted(u)
           /\ (~Accepted(t)) => resp[t].status = 422 /\ resp[t] = resp[u]

C26_Witness ==
    /\ Validated(1) /\ Validated(2)
    /\ Len(req[1].body.messages) = 2 /\ Len(req[2].body.messages) = 2
    /\ req[1].body.max_tokens = <<>> /\ req[2].body.max_tokens = <<>>
    /\ req[1].body.messages[1] = [role |-> "user", content |-> 8000]
    /\ req[1].body.messages[2] = [role |-> "user", content |-> 8001]
    /\ req[2].body.messages[1] = [role |-> "system", content |-> 8001]
    /\ req[2].body.messages[2] = [role |-> "user", content |-> 8000]
    /\ ~Accepted(1) /\ ~Accepted(2)
    /\ resp[1].status = 422

\* C27: two requests of the same kind get the same (provider, model) pair
\* from the selector and an adapter of the same provider with the same model
\* name, however their payloads differ.
C27_RouteIndependentOfPayload ==
    \A t, u \in Tasks :
        (adapter[t] # NoAdapter /\ adapter[u] # NoAdapter /\ Kind(t) = Kind(u))
        => /\ routed[t] = routed[u]
           /\ adapter[t].inner = adapter[u].inner
           /\ adapter[t].inner.provider = routed[t][1][1]

C27_Witness ==
    /\ adapter[1] # NoAdapter /\ adapter[2] # NoAdapter
    /\ Kind(1) = "chat" /\ Kind(2) = "chat"
    /\ req[1].body.model = <<>> /\ req[2].body.model = <<"ollama", "llama3">>
    /\ adapter[1].payload.messages # adapter[2].payload.messages
    /\ adapter[1].payload.temperature # adapter[2].payload.temperature
    /\ adapter[1].payload.max_tokens # adapter[2].payload.max_tokens
    /\ routed[1] = routed[2]

\* A started StreamingResponse, and a response of one JSON document (the
\* adapter's result, or an error).
IsEventStream(r) == r.status = 200 /\ r.body = NoBody /\ r.end # "pending"
IsJson(r) ==
    /\ r.end = "complete"
    /\ r.events = <<>>
    /\ (r.body # NoBody \/ r.detail # NoDetail)

\* The endpoint function has run for the request of t: it was validated and
\* the rate limiter let it through.
Handled(t) ==
    \/ pc[t] \in {"await_chat", "stream_open", "stream_iter", "stream_send"}
    \/ Answered(t) /\ adapter[t] # NoAdapter /\ resp[t].status # 429

\* C28: the Adapter of a chat request has kind stream_chat exactly when the
\* endpoint answers with an event stream and calls chat_stream, and kind chat
\* exactly when it calls chat and answers with one JSON document; of chat and
\* chat_stream only the one of the kind is ever called, once, and it has been
\* called when the request is answered.
C28_KindAgreesWithExecutionPath ==
    \A t \in Tasks :
        (IsChat(t) /\ adapter[t] # NoAdapter) =>
            /\ Kind(t) \in {"chat", "stream_chat"}
            /\ Len(calls[t]) <= 1
            /\ \A i \in 1..Len(calls[t]) :
                  calls[t][i].op = IF Kind(t) = "stream_chat" THEN "chat_stream" ELSE "chat"
            /\ Handled(t) =>
                  /\ (Kind(t) = "stream_chat") <=> IsEventStream(resp[t])
                  /\ (Kind(t) = "chat" /\ Answered(t)) => IsJson(resp[t])
                  /\ (Kind(t) = "chat") => Len(calls[t]) = 1
                  /\ (Kind(t) = "stream_chat" /\ pc[t] # "stream_open") => Len(calls[t]) = 1

C28_Witness ==
    \E t \in Tasks :
        /\ Answered(t)
        /\ adapter[t] # NoAdapter
        /\ Kind(t) = "stream_chat"
        /\ calls[t] # <<>>
        /\ calls[t][1].op = "chat_stream"
        /\ EndsWithDone(resp[t].events)

====
